---- MODULE Spec2Model ----
(***************************************************************************)
(* The Host Runtime of lib/Runtime/HostManager/HostManager.cpp: the        *)
(* network registry, the admission queue, the dispatch pump and the        *)
(* counters, with caller threads and executor completions interleaved at   *)
(* the granularity of the locks the code takes.                            *)
(***************************************************************************)
EXTENDS Integers, Sequences, FiniteSets, TLC

\* ------------------------------------------------------------- bounds
MaxRequests == 3        \* runNetwork calls made in one history
MaxCalls == 3           \* API calls made in one history of Spec

Threads == {"t1", "t2"}
Names == {"A", "B"}
\* The Modules handed to addNetwork: the names of their Functions, in order.
Modules == {<<"A">>, <<"B">>, <<"B", "A">>}
Priorities == {0, 1}
\* The one priority used by the requests of Spec: the order of dispatch is
\* studied under RunSpec.
LifecyclePriorities == {0}
RequestIDs == 0..(MaxRequests - 1)
\* The HostConfigs tried: maxActiveRequests, maxQueueSize.
HostConfig(active, queue) ==
  [maxActiveRequests |-> active, maxQueueSize |-> queue]
HostConfigs == {HostConfig(1, 0), HostConfig(1, 1), HostConfig(1, 2),
                HostConfig(2, 1)}
LifecycleConfig == HostConfig(1, 1)

\* ErrorValue::ErrorCode values used by the Host Manager, and "OK".
OK == "OK"
RUNTIME_ERROR == "RUNTIME_ERROR"
RUNTIME_NET_NOT_FOUND == "RUNTIME_NET_NOT_FOUND"
RUNTIME_NET_BUSY == "RUNTIME_NET_BUSY"
RUNTIME_REQUEST_REFUSED == "RUNTIME_REQUEST_REFUSED"
\* An error produced below the Host Manager (executor, device, compiler).
INTERNAL_ERROR == "INTERNAL_ERROR"

NoRequest == [networkName |-> "none", priority |-> 0, requestID |-> -1]

VARIABLES
  config_,              \* HostConfig: maxActiveRequests, maxQueueSize
  networks_,            \* name -> NetworkData (refcount)
  processingNetworks_,  \* names being added
  inferQueue_,          \* set of InferRequest, ordered by InferBefore
  activeRequestCount_,
  totalRequestCount_,
  pc,                   \* thread -> position in its current call
  local,                \* thread -> locals of its current call
  ret,                  \* thread -> what its last call returned
  inflight,             \* requestID -> run handed to the executor
  shuttingDown,         \* executor shutdown has been requested
  callbacks,            \* requestID -> errors its user callback was given
  refDelta,             \* requestID -> refcount increments / decrements made
  devices_,             \* DeviceID -> DeviceManager
  pools,                \* roots that have an executor pool
  counters,             \* the exported memory counters
  calls,                \* addNetwork, removeNetwork and clearHost calls made
  NI,                   \* the NodeInfo handed to the CPU backend
  supported,            \* what isOpSupported(NI) returned, once called
  lower                 \* what shouldLower(N) returned, once called

managerVars == <<config_, networks_, processingNetworks_, inferQueue_,
                 activeRequestCount_, totalRequestCount_, pc, local, ret,
                 inflight, shuttingDown, callbacks, refDelta, devices_, pools,
                 counters, calls>>
backendVars == <<NI, supported, lower>>
vars == <<managerVars, backendVars>>

hostVars == <<networks_, processingNetworks_, devices_, pools, counters>>
runVars == <<totalRequestCount_, inflight, callbacks, refDelta>>
queueVars == <<inferQueue_, activeRequestCount_>>

\* ------------------------------------------------------------ helpers
NoLocal == [request |-> NoRequest, popped |-> NoRequest, names |-> <<>>,
            pending |-> {}, blocking |-> "none"]
\* The ExecutionContext (with its PlaceholderBindings) passed to run id, and
\* the empty unique_ptr.
ContextOf(id) == [run |-> id]
NoContext == [run |-> -1]
NoRet == [op |-> "none", err |-> OK, id |-> -1, context |-> NoContext]
NoRun == [st |-> "none", name |-> "none", err |-> OK, popped |-> NoRequest]

SeqToSet(s) == {s[i] : i \in 1..Len(s)}

\* InferRequest ordering of the admission queue: priority descending, then
\* requestID ascending.
InferBefore(a, b) ==
  \/ a.priority > b.priority
  \/ a.priority = b.priority /\ a.requestID < b.requestID

\* Mutant of QueueTop: the oldest request first whatever its priority.
QueueTopIgnoringPriority(q) ==
  CHOOSE r \in q : \A o \in q \ {r} : r.requestID < o.requestID

\* inferQueue_.top()
QueueTop(q) == CHOOSE r \in q : \A o \in q \ {r} : InferBefore(r, o)

\* A thread's call returns: its locals die, its result is recorded. A
\* runNetwork called by runNetworkBlocking returns into the wrapper, which
\* drops the run identifier and goes on to fut.wait().
Return(t, value) ==
  IF local[t].blocking = "none"
    THEN /\ pc' = [pc EXCEPT ![t] = "idle"]
         /\ local' = [local EXCEPT ![t] = NoLocal]
         /\ ret' = [ret EXCEPT ![t] = value]
    ELSE /\ pc' = [pc EXCEPT ![t] = "rb_wait"]
         /\ UNCHANGED <<local, ret>>

Goto(t, label) == pc' = [pc EXCEPT ![t] = label]

\* Mutant of InvokeCallback: the callback is not invoked.
InvokeCallbackDropped(id, err) == callbacks' = callbacks

\* The user callback of request id is invoked with err.
InvokeCallback(id, err) ==
  callbacks' = [callbacks EXCEPT ![id] = Append(@, err)]

\* What request id has added to and taken from refcounts so far, when it
\* changes a refcount from old to new.
RefChange(id, old, new) ==
  refDelta' = [refDelta EXCEPT
                 ![id].inc = @ + (IF new > old THEN new - old ELSE 0),
                 ![id].dec = @ + (IF new < old THEN old - new ELSE 0)]

\* Mutant of RunReturned: the value of totalRequestCount_ after the increment.
RunReturnedPostIncrement(id) ==
  [op |-> "runNetwork", err |-> OK, id |-> id + 1, context |-> NoContext]

\* runNetwork returns its RunIdentifier (currentRun), not an Error.
RunReturned(id) ==
  [op |-> "runNetwork", err |-> OK, id |-> id, context |-> NoContext]

\* Mutant of QueueIsFull: an empty queue is never full.
QueueIsFullUnlessEmpty(queueSize) ==
  queueSize > 0 /\ queueSize >= config_.maxQueueSize

\* Mutant of QueueIsFull: > for >=.
QueueIsFullOffByOne(queueSize) == queueSize > config_.maxQueueSize

\* queueSize >= config_.maxQueueSize
QueueIsFull(queueSize) == queueSize >= config_.maxQueueSize

\* Mutant of BelowMaxActive: one request more passes the comparison.
BelowMaxActiveOffByOne(activeRequestCount) ==
  activeRequestCount <= config_.maxActiveRequests

\* activeRequestCount < config_.maxActiveRequests
BelowMaxActive(activeRequestCount) ==
  activeRequestCount < config_.maxActiveRequests

\* network->refcount++ / refcount-- of the three places that touch it.
\* Mutant of RefAfterLookup: the lookup takes no reference.
RefAfterLookupKept(refcount) == refcount
RefAfterLookup(refcount) == refcount + 1
\* Mutant of RefAfterRefusal: the refused path forgets its decrement.
RefAfterRefusalKept(refcount) == refcount
RefAfterRefusal(refcount) == refcount - 1
\* Mutant of RefAfterCompletion: the completion forgets its decrement.
RefAfterCompletionKept(refcount) == refcount
RefAfterCompletion(refcount) == refcount - 1

\* ------------------------------------------------------------ runNetwork
\* auto currentRun = totalRequestCount_++;
RunNetwork(t, name, priority) ==
  /\ pc[t] = "idle"
  /\ totalRequestCount_ < MaxRequests
  /\ totalRequestCount_' = totalRequestCount_ + 1
  /\ local' = [local EXCEPT ![t].request =
                 [networkName |-> name, priority |-> priority,
                  requestID |-> totalRequestCount_]]
  /\ Goto(t, "rn_lookup")
  /\ ret' = [ret EXCEPT ![t] = NoRet]
  /\ UNCHANGED <<backendVars, config_, calls, hostVars, queueVars, inflight, shuttingDown,
                 callbacks, refDelta>>

\* Under the shared networkLock_: find the network and take a reference, or
\* report RUNTIME_NET_NOT_FOUND through the callback and return.
RunLookup(t) ==
  LET req == local[t].request IN
  /\ pc[t] = "rn_lookup"
  /\ IF req.networkName \in DOMAIN networks_
       THEN /\ networks_' = [networks_ EXCEPT ![req.networkName].refcount =
                                RefAfterLookup(@)]
            /\ RefChange(req.requestID, networks_[req.networkName].refcount,
                         RefAfterLookup(networks_[req.networkName].refcount))
            /\ Goto(t, "rn_check")
            /\ UNCHANGED <<local, ret, callbacks>>
       ELSE /\ InvokeCallback(req.requestID, RUNTIME_NET_NOT_FOUND)
            /\ Return(t, RunReturned(req.requestID))
            /\ UNCHANGED <<networks_, refDelta>>
  /\ UNCHANGED <<backendVars, config_, calls, processingNetworks_, devices_, pools, counters,
                 queueVars, totalRequestCount_, inflight, shuttingDown>>

\* Under the shared inferQueueLock_: refuse the request when the queue is full.
RunCheckQueue(t) ==
  LET req == local[t].request IN
  /\ pc[t] = "rn_check"
  /\ IF QueueIsFull(Cardinality(inferQueue_))
       THEN /\ networks_' = [networks_ EXCEPT ![req.networkName].refcount =
                                RefAfterRefusal(@)]
            /\ RefChange(req.requestID, networks_[req.networkName].refcount,
                         RefAfterRefusal(networks_[req.networkName].refcount))
            /\ InvokeCallback(req.requestID, RUNTIME_REQUEST_REFUSED)
            /\ Return(t, RunReturned(req.requestID))
       ELSE /\ Goto(t, "rn_push")
            /\ UNCHANGED <<networks_, refDelta, callbacks, local, ret>>
  /\ UNCHANGED <<backendVars, config_, calls, processingNetworks_, devices_, pools, counters,
                 queueVars, totalRequestCount_, inflight, shuttingDown>>

\* Under the exclusive inferQueueLock_: inferQueue_.push(queuedRequest); the
\* shared networkLock_ is released when the block ends.
RunPush(t) ==
  /\ pc[t] = "rn_push"
  /\ inferQueue_' = inferQueue_ \cup {local[t].request}
  /\ Goto(t, "rn_inc")
  /\ UNCHANGED <<backendVars, config_, calls, hostVars, activeRequestCount_, totalRequestCount_,
                 local, ret, inflight, shuttingDown, callbacks, refDelta>>

\* size_t activeRequestCount = activeRequestCount_++; then the comparison
\* with maxActiveRequests decides between dispatchNextRun and the decrement.
RunIncrement(t) ==
  /\ pc[t] = "rn_inc"
  /\ activeRequestCount_' = activeRequestCount_ + 1
  /\ IF BelowMaxActive(activeRequestCount_)
       THEN Goto(t, "dispatch")
       ELSE Goto(t, "rn_dec")
  /\ UNCHANGED <<backendVars, config_, calls, hostVars, inferQueue_, totalRequestCount_, local,
                 ret, inflight, shuttingDown, callbacks, refDelta>>

\* activeRequestCount_--; return currentRun;
RunDecrement(t) ==
  /\ pc[t] = "rn_dec"
  /\ activeRequestCount_' = activeRequestCount_ - 1
  /\ Return(t, RunReturned(local[t].request.requestID))
  /\ UNCHANGED <<backendVars, config_, calls, hostVars, inferQueue_, totalRequestCount_, inflight,
                 shuttingDown, callbacks, refDelta>>

\* ----------------------------------------------------- runNetworkBlocking
BlockingOverloads == {"bindings", "context"}

\* Both overloads move the caller's context (the bindings overload: a context
\* made around the caller's bindings) into runNetwork with the default
\* priority, and pass a callback that fills runErr and the promise.
RunNetworkBlocking(t, name, priority, overload) ==
  /\ pc[t] = "idle"
  /\ totalRequestCount_ < MaxRequests
  /\ totalRequestCount_' = totalRequestCount_ + 1
  /\ local' = [local EXCEPT ![t].request =
                 [networkName |-> name, priority |-> priority,
                  requestID |-> totalRequestCount_],
                             ![t].blocking = overload]
  /\ Goto(t, "rn_lookup")
  /\ ret' = [ret EXCEPT ![t] = NoRet]
  /\ UNCHANGED <<backendVars, config_, calls, hostVars, queueVars, inflight, shuttingDown,
                 callbacks, refDelta>>

\* Mutant of FutureReady: fut.wait() does not wait.
FutureReadyAlways(id) == TRUE

\* fut.wait() returns once the callback of run id did runPromise.set_value().
FutureReady(id) == callbacks[id] # <<>>

\* runErr: empty until the callback of run id stores its error.
RunErr(id) == IF callbacks[id] = <<>> THEN "empty" ELSE callbacks[id][1]

\* Mutant of CallerContext: context = std::move(tempContext) is left out.
CallerContextNotRestored(id) == NoContext

\* What the caller's context (or bindings) holds on return: tempContext, that
\* is the context the callback of run id was given, which is the one moved
\* into runNetwork; the callback of the bindings overload releases the
\* bindings instead of deleting them.
CallerContext(id) == IF callbacks[id] = <<>> THEN NoContext ELSE ContextOf(id)

BlockingReturned(overload, id) ==
  [op |-> overload, err |-> RunErr(id), id |-> id,
   context |-> CallerContext(id)]

\* fut.wait(); context = std::move(tempContext); return runErr;
BlockingReturn(t) ==
  /\ pc[t] = "rb_wait"
  /\ FutureReady(local[t].request.requestID)
  /\ pc' = [pc EXCEPT ![t] = "idle"]
  /\ local' = [local EXCEPT ![t] = NoLocal]
  /\ ret' = [ret EXCEPT ![t] =
               BlockingReturned(local[t].blocking, local[t].request.requestID)]
  /\ UNCHANGED <<backendVars, config_, calls, hostVars, queueVars, runVars, shuttingDown>>

\* ------------------------------------------------------- dispatchNextRun
\* networks_[request.networkName]: operator[] of the map inserts a default
\* NetworkData when the key is absent.
NetworksIndex(name) ==
  IF name \in DOMAIN networks_
    THEN networks_
    ELSE [n \in DOMAIN networks_ \cup {name} |->
            IF n = name THEN [refcount |-> 0] ELSE networks_[n]]

\* Executor::run: the run is accepted, or turned away once shutdown began;
\* either way its completion is invoked later, exactly once.
ExecutorRun(runs, request) ==
  [runs EXCEPT ![request.requestID] =
     [st |-> IF shuttingDown THEN "rejected" ELSE "running",
      name |-> request.networkName, err |-> OK, popped |-> NoRequest]]

\* dispatchNextRun called from runNetwork, under the exclusive
\* inferQueueLock_: pop the top request, or give the slot back.
DispatchPop(t) ==
  /\ pc[t] = "dispatch"
  /\ IF inferQueue_ # {}
       THEN /\ inferQueue_' = inferQueue_ \ {QueueTop(inferQueue_)}
            /\ local' = [local EXCEPT ![t].popped = QueueTop(inferQueue_)]
            /\ Goto(t, "dispatch_run")
            /\ UNCHANGED <<activeRequestCount_, ret>>
       ELSE /\ activeRequestCount_' = activeRequestCount_ - 1
            /\ Return(t, RunReturned(local[t].request.requestID))
            /\ UNCHANGED inferQueue_
  /\ UNCHANGED <<backendVars, config_, calls, hostVars, totalRequestCount_, inflight,
                 shuttingDown, callbacks, refDelta>>

\* executor_->run(networks_[request.networkName].dag.root.get(), ...), still
\* under the shared networkLock_; then dispatchNextRun and runNetwork return.
DispatchRun(t) ==
  /\ pc[t] = "dispatch_run"
  /\ networks_' = NetworksIndex(local[t].popped.networkName)
  /\ inflight' = ExecutorRun(inflight, local[t].popped)
  /\ Return(t, RunReturned(local[t].request.requestID))
  /\ UNCHANGED <<backendVars, config_, calls, processingNetworks_, devices_, pools, counters,
                 queueVars, totalRequestCount_, shuttingDown, callbacks,
                 refDelta>>

\* Mutant of StageAfterRefcount: the lambda goes on to dispatchNextRun.
StageAfterRefcountSkipsCallback == "dispatch"

\* What the completion lambda does after its refcount block.
StageAfterRefcount == "callback"

\* The executor finishes run id with err and invokes the completion lambda,
\* which first drops the network's reference under the shared networkLock_.
CompletionRefcount(id, err) ==
  LET name == inflight[id].name IN
  /\ inflight[id].st \in {"running", "rejected"}
  /\ inflight[id].st = "rejected" => err # OK
  /\ IF name \in DOMAIN networks_
       THEN /\ networks_' = [networks_ EXCEPT ![name].refcount =
                                RefAfterCompletion(@)]
            /\ RefChange(id, networks_[name].refcount,
                         RefAfterCompletion(networks_[name].refcount))
       ELSE UNCHANGED <<networks_, refDelta>>
  /\ inflight' = [inflight EXCEPT ![id].st = StageAfterRefcount,
                                   ![id].err = err]
  /\ UNCHANGED <<backendVars, config_, calls, processingNetworks_, devices_, pools, counters,
                 queueVars, totalRequestCount_, pc, local, ret, shuttingDown,
                 callbacks>>

\* updateExecutionStats, the request times, then callback(runID, err, ctx).
CompletionCallback(id) ==
  /\ inflight[id].st = "callback"
  /\ InvokeCallback(id, inflight[id].err)
  /\ inflight' = [inflight EXCEPT ![id].st = "dispatch"]
  /\ UNCHANGED <<backendVars, config_, calls, hostVars, queueVars, totalRequestCount_, pc, local,
                 ret, shuttingDown, refDelta>>

\* dispatchNextRun called by the completion lambda of run id.
CompletionDispatchPop(id) ==
  /\ inflight[id].st = "dispatch"
  /\ IF inferQueue_ # {}
       THEN /\ inferQueue_' = inferQueue_ \ {QueueTop(inferQueue_)}
            /\ inflight' = [inflight EXCEPT
                              ![id].st = "dispatch_run",
                              ![id].popped = QueueTop(inferQueue_)]
            /\ UNCHANGED activeRequestCount_
       ELSE /\ activeRequestCount_' = activeRequestCount_ - 1
            /\ inflight' = [inflight EXCEPT ![id] = NoRun]
            /\ UNCHANGED inferQueue_
  /\ UNCHANGED <<backendVars, config_, calls, hostVars, totalRequestCount_, pc, local, ret,
                 shuttingDown, callbacks, refDelta>>

CompletionDispatchRun(id) ==
  LET request == inflight[id].popped IN
  /\ inflight[id].st = "dispatch_run"
  /\ networks_' = NetworksIndex(request.networkName)
  /\ inflight' = ExecutorRun([inflight EXCEPT ![id] = NoRun], request)
  /\ UNCHANGED <<backendVars, config_, calls, processingNetworks_, devices_, pools, counters,
                 queueVars, totalRequestCount_, pc, local, ret, shuttingDown,
                 callbacks, refDelta>>

\* --------------------------------------------------------------- devices
DeviceIDs == {0, 1}
\* Memory is counted in loaded functions; a device holds one per name.
DeviceCapacity == Cardinality(Names)

NewDevice(backend) ==
  [backendName |-> backend, functions |-> {}, stopped |-> FALSE]

\* The memory in use summed over the devices ids.
RECURSIVE UsedMemory(_, _)
UsedMemory(devices, ids) ==
  IF ids = {} THEN 0
  ELSE LET d == CHOOSE x \in ids : TRUE
       IN  Cardinality(devices[d].functions) + UsedMemory(devices, ids \ {d})

\* exportMemoryCounters
MemoryCounters(devices) ==
  LET used == UsedMemory(devices, DeviceIDs)
      maxMem == DeviceCapacity * Cardinality(DeviceIDs)
  IN  [used |-> used, available |-> maxMem - used, max |-> maxMem]

ZeroCounters == [used |-> 0, available |-> 0, max |-> 0]

\* Some thread or completion holds networkLock_ shared, so that an exclusive
\* acquisition has to wait.
SharedHeld ==
  \/ \E t \in Threads : pc[t] \in {"rn_check", "rn_push", "dispatch_run"}
  \/ \E id \in RequestIDs : inflight[id].st = "dispatch_run"

\* No run is outstanding at the executor: what shutdown (and the destructor
\* of a replaced executor) waits for.
ExecutorIdle == \A id \in RequestIDs : inflight[id].st = "none"

\* The requests popped by a dispatchNextRun that has not yet handed them over.
PoppedHeld ==
  {local[t].popped : t \in {u \in Threads : pc[u] = "dispatch_run"}}
    \cup {inflight[id].popped :
            id \in {i \in RequestIDs : inflight[i].st = "dispatch_run"}}

\* The requests that are in inferQueue_, popped, or at the executor with their
\* user callback not yet invoked.
QueuedOrInFlight ==
  {r.requestID : r \in inferQueue_ \cup PoppedHeld}
    \cup {id \in RequestIDs : inflight[id].st \in {"running", "rejected",
                                                    "callback"}}

\* An API call may still be made in this history (Spec).
HostCall == calls + totalRequestCount_ < MaxCalls

\* ------------------------------------------------------------ addNetwork
AddReturned(err) ==
  [op |-> "addNetwork", err |-> err, id |-> -1, context |-> NoContext]

\* Mutant of NameTaken: only processingNetworks_ is consulted.
NameTakenProcessingOnly(name, processing) == name \in processing

\* The duplicate test of the reservation loop.
NameTaken(name, processing) ==
  name \in DOMAIN networks_ \/ name \in processing

\* Mutant of CleanupAddNetwork: the names stay reserved.
CleanupNothing(processing, names) == processing

\* cleanupAddNetwork: erase the names from processingNetworks_.
CleanupAddNetwork(processing, names) == processing \ SeqToSet(names)

\* The reservation loop over module->getFunctions(), from function i on, with
\* the names inserted so far: the final processingNetworks_ and names, and
\* whether a duplicate stopped the loop.
RECURSIVE ReserveNames(_, _, _, _)
ReserveNames(functions, i, processing, names) ==
  IF i > Len(functions)
    THEN [ok |-> TRUE, processing |-> processing, names |-> names]
    ELSE IF NameTaken(functions[i], processing)
      THEN [ok |-> FALSE,
            processing |-> CleanupAddNetwork(processing, names),
            names |-> names]
      ELSE ReserveNames(functions, i + 1, processing \cup {functions[i]},
                        Append(names, functions[i]))

\* A failure path that releases the reserved names under the exclusive
\* networkLock_ before it returns err.
FailWithCleanup(t, err) ==
  /\ ~SharedHeld
  /\ processingNetworks_' = CleanupAddNetwork(processingNetworks_, local[t].names)
  /\ counters' = MemoryCounters(devices_)
  /\ Return(t, AddReturned(err))

\* A failure path that returns err straight away (RETURN_IF_ERR,
\* RETURN_ERR_IF_NOT, return MAKE_ERR).
FailWithoutCleanup(t, err) ==
  /\ Return(t, AddReturned(err))
  /\ UNCHANGED <<processingNetworks_, counters>>

Proceed(t, label) ==
  /\ Goto(t, label)
  /\ UNCHANGED <<local, ret, processingNetworks_, counters>>

\* addNetwork is called with a Module: reserve its names.
AddNetwork(t, functions) ==
  LET r == ReserveNames(functions, 1, processingNetworks_, <<>>) IN
  /\ pc[t] = "idle"
  /\ HostCall
  /\ ~SharedHeld
  /\ calls' = calls + 1
  /\ processingNetworks_' = r.processing
  /\ IF r.ok
       THEN /\ pc' = [pc EXCEPT ![t] = "add_optimize"]
            /\ local' = [local EXCEPT ![t].names = r.names]
            /\ ret' = [ret EXCEPT ![t] = NoRet]
            /\ UNCHANGED counters
       ELSE /\ counters' = MemoryCounters(devices_)
            /\ Return(t, AddReturned(RUNTIME_ERROR))
  /\ UNCHANGED <<backendVars, config_, networks_, devices_, pools, queueVars, runVars,
                 shuttingDown>>

\* Device info is gathered under the exclusive networkLock_; then, unless the
\* cctx carries backendSpecificNodeInfo, each Function is optimized.
AddOptimize(t, skipOptimizations, fails) ==
  /\ pc[t] = "add_optimize"
  /\ ~SharedHeld
  /\ IF ~skipOptimizations /\ fails
       THEN FailWithCleanup(t, INTERNAL_ERROR)
       ELSE Proceed(t, "add_partition")
  /\ UNCHANGED <<backendVars, config_, calls, networks_, devices_, pools, queueVars,
                 runVars, shuttingDown>>

\* partitioner.partition(cctx)
AddPartition(t, fails) ==
  /\ pc[t] = "add_partition"
  /\ IF fails
       THEN FailWithCleanup(t, INTERNAL_ERROR)
       ELSE Proceed(t, "add_profile")
  /\ UNCHANGED <<backendVars, config_, calls, networks_, devices_, pools, queueVars,
                 runVars, shuttingDown>>

\* quantMode == Profile: no other network may be registered; networks_.size()
\* is read without networkLock_.
AddProfile(t, profile) ==
  /\ pc[t] = "add_profile"
  /\ IF ~profile
       THEN Proceed(t, "add_fold")
       ELSE IF Cardinality(DOMAIN networks_) > 0
         THEN FailWithoutCleanup(t, RUNTIME_ERROR)
         ELSE Proceed(t, "add_rebuild")
  /\ UNCHANGED <<backendVars, config_, calls, networks_, devices_, pools, queueVars,
                 runVars, shuttingDown>>

\* Every device is rebuilt on the profiling backend, then Provisioner and
\* Executor are reset; still without networkLock_.
AddProfileRebuild(t, initFails) ==
  /\ pc[t] = "add_rebuild"
  /\ IF initFails
       THEN /\ FailWithoutCleanup(t, INTERNAL_ERROR)
            /\ devices_' = [d \in DeviceIDs |-> NewDevice("profiling")]
            /\ UNCHANGED <<pools, shuttingDown>>
       ELSE /\ ExecutorIdle
            /\ Proceed(t, "add_fold")
            /\ devices_' = [d \in DeviceIDs |-> NewDevice("profiling")]
            /\ pools' = {}
            /\ shuttingDown' = FALSE
  /\ UNCHANGED <<backendVars, config_, calls, networks_, queueVars, runVars>>

\* delayAndRecordConstantModification: exactly one DAG is expected, and each
\* folded Function must still verify against its backend.
AddConstantFold(t, delayAndRecord, verifyFails) ==
  /\ pc[t] = "add_fold"
  /\ IF delayAndRecord /\ (Len(local[t].names) # 1 \/ verifyFails)
       THEN FailWithoutCleanup(t, INTERNAL_ERROR)
       ELSE Proceed(t, "add_serialize")
  /\ UNCHANGED <<backendVars, config_, calls, networks_, devices_, pools, queueVars,
                 runVars, shuttingDown>>

\* serializeCompiledDAG: write <root>.onnx.
AddSerialize(t, serialize, writeFails) ==
  /\ pc[t] = "add_serialize"
  /\ IF serialize /\ writeFails
       THEN FailWithoutCleanup(t, INTERNAL_ERROR)
       ELSE Proceed(t, "add_provision")
  /\ UNCHANGED <<backendVars, config_, calls, networks_, devices_, pools, queueVars,
                 runVars, shuttingDown>>

\* Provisioner::provision: every function of the module is loaded, or none.
Provision(devices, names) ==
  [d \in DeviceIDs |->
     [devices[d] EXCEPT !.functions = @ \cup SeqToSet(names)]]

AddProvision(t, fails) ==
  /\ pc[t] = "add_provision"
  /\ IF fails
       THEN /\ FailWithCleanup(t, INTERNAL_ERROR)
            /\ UNCHANGED devices_
       ELSE /\ Proceed(t, "add_pool")
            /\ devices_' = Provision(devices_, local[t].names)
  /\ UNCHANGED <<backendVars, config_, calls, networks_, pools, queueVars, runVars,
                 shuttingDown>>

\* executor_->createPool for every root, under the exclusive networkLock_.
AddCreatePool(t) ==
  /\ pc[t] = "add_pool"
  /\ ~SharedHeld
  /\ pools' = pools \cup SeqToSet(local[t].names)
  /\ Goto(t, "add_publish")
  /\ UNCHANGED <<backendVars, config_, calls, networks_, processingNetworks_, devices_,
                 counters, queueVars, runVars, shuttingDown, local, ret>>

\* Mutant of Publish: nothing is moved into networks_.
PublishNothing(networks, names) == networks

\* networks_[root->name] gets the DAG and the shared module (operator[]: an
\* existing entry keeps its refcount), then the names leave
\* processingNetworks_.
Publish(networks, names) ==
  [n \in DOMAIN networks \cup SeqToSet(names) |->
     IF n \in DOMAIN networks THEN networks[n] ELSE [refcount |-> 0]]

AddPublish(t) ==
  /\ pc[t] = "add_publish"
  /\ ~SharedHeld
  /\ networks_' = Publish(networks_, local[t].names)
  /\ processingNetworks_' = CleanupAddNetwork(processingNetworks_, local[t].names)
  /\ counters' = MemoryCounters(devices_)
  /\ Return(t, AddReturned(OK))
  /\ UNCHANGED <<backendVars, config_, calls, devices_, pools, queueVars, runVars,
                 shuttingDown>>

\* --------------------------------------------------------- removeNetwork
RemoveReturned(err) ==
  [op |-> "removeNetwork", err |-> err, id |-> -1, context |-> NoContext]
ClearReturned(err) ==
  [op |-> "clearHost", err |-> err, id |-> -1, context |-> NoContext]

\* Mutant of HasOutstandingRuns: the refcount is not consulted.
HasOutstandingRunsIgnored(refcount) == FALSE

\* Mutant of HasOutstandingRuns: one outstanding run is let through.
HasOutstandingRunsAboveOne(refcount) == refcount > 1

\* networkIterator->second.refcount != 0
HasOutstandingRuns(refcount) == refcount # 0

\* Mutant of RemoveResult: processingNetworks_ is consulted before networks_.
RemoveResultProcessingFirst(name, evictFails) ==
  IF name \in processingNetworks_ THEN RUNTIME_NET_BUSY
  ELSE IF name \notin DOMAIN networks_ THEN OK
  ELSE IF networks_[name].refcount # 0 THEN RUNTIME_NET_BUSY
  ELSE IF evictFails THEN INTERNAL_ERROR
  ELSE OK

\* What removeNetwork(name) returns, given whether an eviction fails.
RemoveResult(name, evictFails) ==
  IF name \notin DOMAIN networks_ THEN OK
  ELSE IF name \in processingNetworks_ THEN RUNTIME_NET_BUSY
  ELSE IF HasOutstandingRuns(networks_[name].refcount) THEN RUNTIME_NET_BUSY
  ELSE IF evictFails THEN INTERNAL_ERROR
  ELSE OK

\* Mutant of RemoveErases: removeNetwork never gets past its checks.
RemoveErasesNever(name) == FALSE

\* removeNetwork passed its checks and erases the network.
RemoveErases(name) ==
  /\ name \in DOMAIN networks_
  /\ name \notin processingNetworks_
  /\ ~HasOutstandingRuns(networks_[name].refcount)

\* The device whose eviction is the first of the loop.
FirstDevice == CHOOSE d \in DeviceIDs : \A e \in DeviceIDs : d <= e

\* Mutant of Evict: the loop stops at the first failed eviction.
EvictUntilFailure(devices, name, evictFails) ==
  IF evictFails THEN devices
  ELSE [d \in DeviceIDs |-> [devices[d] EXCEPT !.functions = @ \ {name}]]

\* Provisioner::evictFunction on one device: a failed eviction leaves the
\* function on the device.
EvictFunction(device, name, fails) ==
  IF fails THEN device ELSE [device EXCEPT !.functions = @ \ {name}]

\* The eviction loop of removeNetwork: evictFunction on every device of the
\* node. evictFails: the first eviction fails; the loop goes on to the other
\* devices.
Evict(devices, name, evictFails) ==
  [d \in DeviceIDs |->
     EvictFunction(devices[d], name, evictFails /\ d = FirstDevice)]

\* Mutant of RemoveStatements: the pool is freed after the erase.
RemoveStatementsFreePoolLast ==
  <<"evictFunction", "erase", "freePool", "exportMemoryCounters">>

\* The statements of removeNetwork after its checks, in program order.
RemoveStatements ==
  <<"freePool", "evictFunction", "erase", "exportMemoryCounters">>

\* What one of these statements does to the host.
Execute(statement, host, name, evictFails) ==
  CASE statement = "freePool" ->
         [host EXCEPT !.pools = host.pools \ {name}]
    [] statement = "evictFunction" ->
         [host EXCEPT !.devices = Evict(host.devices, name, evictFails)]
    [] statement = "erase" ->
         [host EXCEPT !.networks =
            [n \in DOMAIN host.networks \ {name} |-> host.networks[n]]]
    [] statement = "exportMemoryCounters" ->
         [host EXCEPT !.counters = MemoryCounters(host.devices)]

\* The host before the first and after each of the statements.
RECURSIVE RemoveTrace(_, _, _, _)
RemoveTrace(statements, host, name, evictFails) ==
  IF statements = <<>> THEN <<host>>
  ELSE <<host>> \o RemoveTrace(Tail(statements),
                               Execute(Head(statements), host, name,
                                       evictFails),
                               name, evictFails)

\* The members removeNetwork works on.
Host ==
  [pools |-> pools, devices |-> devices_, networks |-> networks_,
   counters |-> counters]

\* The body of removeNetwork, under the exclusive networkLock_.
RemoveNetworkBody(name, evictFails) ==
  IF RemoveErases(name)
    THEN LET trace == RemoveTrace(RemoveStatements, Host, name, evictFails)
             final == trace[Len(trace)]
         IN  /\ pools' = final.pools
             /\ devices_' = final.devices
             /\ networks_' = final.networks
             /\ counters' = final.counters
    ELSE UNCHANGED <<pools, devices_, networks_, counters>>

RemoveNetwork(t, name, evictFails) ==
  /\ pc[t] = "idle"
  /\ HostCall
  /\ ~SharedHeld
  /\ calls' = calls + 1
  /\ RemoveNetworkBody(name, evictFails)
  /\ Return(t, RemoveReturned(RemoveResult(name, evictFails)))
  /\ UNCHANGED <<backendVars, config_, processingNetworks_, queueVars, runVars,
                 shuttingDown>>

\* -------------------------------------------------------------- clearHost
\* executor_->shutdown() is called.
ClearHost(t) ==
  /\ pc[t] = "idle"
  /\ HostCall
  /\ calls' = calls + 1
  /\ shuttingDown' = TRUE
  /\ Goto(t, "clear_shutdown")
  /\ ret' = [ret EXCEPT ![t] = NoRet]
  /\ local' = [local EXCEPT ![t].pending = QueuedOrInFlight]
  /\ UNCHANGED <<backendVars, config_, hostVars, queueVars, runVars>>

\* shutdown returns once no run is outstanding.
ClearHostShutdownDone(t) ==
  /\ pc[t] = "clear_shutdown"
  /\ ExecutorIdle
  /\ Goto(t, "clear_remove")
  /\ UNCHANGED <<backendVars, config_, calls, hostVars, queueVars, runVars, shuttingDown,
                 local, ret>>

\* Mutant of LoopContinues: the error of removeNetwork is dropped.
LoopContinuesAlways(err) == TRUE

\* RETURN_IF_ERR: the loop goes on only after a success.
LoopContinues(err) == err = OK

\* while (networks_.size() != 0) finds an entry and networks_.begin()->first
\* is read, both without networkLock_.
ClearHostFirst(t, name) ==
  /\ pc[t] = "clear_remove"
  /\ name \in DOMAIN networks_
  /\ local' = [local EXCEPT ![t].request.networkName = name]
  /\ Goto(t, "clear_call")
  /\ UNCHANGED <<backendVars, config_, calls, hostVars, queueVars, runVars,
                 shuttingDown, ret>>

\* RETURN_IF_ERR(removeNetwork(name)) for the name read: the loop goes on
\* when removeNetwork succeeds, clearHost returns its error otherwise.
ClearHostRemove(t, name, evictFails) ==
  /\ pc[t] = "clear_call"
  /\ local[t].request.networkName = name
  /\ ~SharedHeld
  /\ RemoveNetworkBody(name, evictFails)
  /\ IF LoopContinues(RemoveResult(name, evictFails))
       THEN /\ Goto(t, "clear_remove")
            /\ local' = [local EXCEPT ![t].request = NoRequest]
            /\ UNCHANGED ret
       ELSE Return(t, ClearReturned(RemoveResult(name, evictFails)))
  /\ UNCHANGED <<backendVars, config_, calls, processingNetworks_, queueVars, runVars,
                 shuttingDown>>

\* networks_.size() is read as 0, without networkLock_: the loop is over.
ClearHostLoopDone(t) ==
  /\ pc[t] = "clear_remove"
  /\ DOMAIN networks_ = {}
  /\ Goto(t, "clear_stop")
  /\ UNCHANGED <<backendVars, config_, calls, hostVars, queueVars, runVars, shuttingDown,
                 local, ret>>

\* Under the exclusive networkLock_: stop every DeviceManager, zero the
\* counters, return the first stop error.
ClearHostStop(t, stopFails) ==
  /\ pc[t] = "clear_stop"
  /\ ~SharedHeld
  /\ devices_' = [d \in DeviceIDs |-> [devices_[d] EXCEPT !.stopped = TRUE]]
  /\ counters' = ZeroCounters
  /\ Return(t, ClearReturned(IF stopFails THEN INTERNAL_ERROR ELSE OK))
  /\ UNCHANGED <<backendVars, config_, calls, networks_, processingNetworks_, pools,
                 queueVars, runVars, shuttingDown>>

\* ------------------------------------------------------------------ spec
\* The state after construction and init(deviceConfigs).
\* ------------------------------------------------------------ CPUBackend
\* The element kinds and node kinds the backend is asked about.
ElemKinds == {"FloatTy", "Int8QTy", "Int16QTy", "Int32QTy", "Int32ITy",
              "Int64ITy", "BoolTy"}

\* Node kinds with a case in isOpSupported.
ListedKinds == {"Add", "Mul", "MaxPool", "Convolution", "SparseLengthsSum",
                "Log", "Quantize", "Dequantize", "ConvertTo"}
\* Node kinds without one.
UnlistedKinds == {"FullyConnected", "Relu"}
NodeKinds == ListedKinds \cup UnlistedKinds

\* The input and output slots of a node of each kind.
InSlots(kind) ==
  CASE kind \in {"Add", "Mul"} -> {"LHS", "RHS"}
    [] kind = "Convolution" -> {"Input", "Filter", "Bias"}
    [] kind = "SparseLengthsSum" -> {"Data", "Indices", "Lengths"}
    [] kind = "FullyConnected" -> {"Input", "Weights", "Bias"}
    [] OTHER -> {"Input"}

OutSlots(kind) ==
  IF kind = "MaxPool" THEN {"Result", "Argmax"} ELSE {"Result"}

NodeInfos ==
  UNION {{[kind |-> k, inTy |-> i, outTy |-> o] :
            i \in [InSlots(k) -> ElemKinds], o \in [OutSlots(k) -> ElemKinds]} :
         k \in NodeKinds}

NoNodeInfo == [kind |-> "none", inTy |-> <<>>, outTy |-> <<>>]

\* Type::isQuantizedType, over ElemKinds.
IsQuantizedType(ty) == ty \in {"Int8QTy", "Int16QTy", "Int32QTy"}

\* NodeInfo::allInputsAndOutputsHaveSameElemKind(allowed, ignoreIn,
\* ignoreOut): the slots that are not ignored share one element kind, and it
\* is an allowed one.
AllInputsAndOutputsHaveSameElemKind(info, allowed, ignoreIn, ignoreOut) ==
  LET kinds == {info.inTy[x] : x \in DOMAIN info.inTy \ ignoreIn}
                 \cup {info.outTy[x] : x \in DOMAIN info.outTy \ ignoreOut}
  IN  Cardinality(kinds) <= 1 /\ kinds \subseteq allowed

\* Mutant of ConvolutionSupported: the bias is not exempted from being Int8Q.
ConvolutionSupportedBiasNotExempt(info) ==
  IF ~IsQuantizedType(info.inTy["Input"])
    THEN AllInputsAndOutputsHaveSameElemKind(info, {"FloatTy"}, {}, {})
    ELSE AllInputsAndOutputsHaveSameElemKind(info, {"Int8QTy"}, {}, {})

\* case Kinded::Kind::ConvolutionNodeKind
ConvolutionSupported(info) ==
  IF ~IsQuantizedType(info.inTy["Input"])
    THEN AllInputsAndOutputsHaveSameElemKind(info, {"FloatTy"}, {}, {})
    ELSE /\ AllInputsAndOutputsHaveSameElemKind(info, {"Int8QTy"}, {"Bias"},
                                                {})
         /\ info.inTy["Bias"] \in {"Int8QTy", "Int32QTy"}

\* Mutant of DefaultSupported: default: return true.
DefaultSupportedTrue(info) == TRUE

\* default: return false;
DefaultSupported(info) == FALSE

\* CPUBackend::isOpSupported, for the node kinds of NodeKinds.
IsOpSupported(info) ==
  CASE info.kind \in {"Add", "Mul"} ->
         AllInputsAndOutputsHaveSameElemKind(
           info, {"FloatTy", "Int8QTy", "Int32ITy", "Int64ITy"}, {}, {})
    [] info.kind = "MaxPool" ->
         /\ AllInputsAndOutputsHaveSameElemKind(
              info, {"FloatTy", "Int8QTy"}, {}, {"Argmax"})
         /\ info.outTy["Argmax"] \in {"Int64ITy", "Int32ITy"}
    [] info.kind = "SparseLengthsSum" ->
         /\ AllInputsAndOutputsHaveSameElemKind(
              info, {"FloatTy"}, {"Indices", "Lengths"}, {})
         /\ info.inTy["Indices"] \in {"Int64ITy", "Int32ITy"}
         /\ info.inTy["Lengths"] = "Int32ITy"
    [] info.kind = "Log" ->
         AllInputsAndOutputsHaveSameElemKind(info, {"FloatTy"}, {}, {})
    [] info.kind = "Convolution" -> ConvolutionSupported(info)
    [] info.kind = "Quantize" ->
         /\ info.inTy["Input"] = "FloatTy"
         /\ info.outTy["Result"] \in {"Int8QTy", "Int32QTy"}
    [] info.kind = "Dequantize" ->
         /\ info.inTy["Input"] = "Int8QTy"
         /\ info.outTy["Result"] = "FloatTy"
    [] info.kind = "ConvertTo" ->
         \/ info.inTy["Input"] = "Int32ITy" /\ info.outTy["Result"] = "FloatTy"
         \/ info.inTy["Input"] = "BoolTy" /\ info.outTy["Result"] = "FloatTy"
         \/ info.inTy["Input"] = "Int64ITy" /\ info.outTy["Result"] = "Int32ITy"
         \/ info.inTy["Input"] = "Int32ITy" /\ info.outTy["Result"] = "Int64ITy"
    [] OTHER -> DefaultSupported(info)

\* Mutant of ShouldLower: every node is lowered.
ShouldLowerAlways(kind) == TRUE

\* CPUBackend::shouldLower
ShouldLower(kind) ==
  CASE kind = "Convolution" -> FALSE
    [] kind = "SparseLengthsSum" -> FALSE
    [] OTHER -> TRUE

\* The compiler asks whether NI is supported.
IsOpSupportedCall ==
  /\ supported = <<>>
  /\ supported' = <<IsOpSupported(NI)>>
  /\ UNCHANGED <<managerVars, NI, lower>>

\* The compiler asks whether the node of NI is to be lowered.
ShouldLowerCall ==
  /\ lower = <<>>
  /\ lower' = <<ShouldLower(NI.kind)>>
  /\ UNCHANGED <<managerVars, NI, supported>>

\* ------------------------------------------------------------------ Init
\* The HostManager after init.
HostInit ==
  /\ config_ = LifecycleConfig
  /\ networks_ = <<>>
  /\ processingNetworks_ = {}
  /\ inferQueue_ = {}
  /\ activeRequestCount_ = 0
  /\ totalRequestCount_ = 0
  /\ pc = [t \in Threads |-> "idle"]
  /\ local = [t \in Threads |-> NoLocal]
  /\ ret = [t \in Threads |-> NoRet]
  /\ inflight = [id \in RequestIDs |-> NoRun]
  /\ shuttingDown = FALSE
  /\ callbacks = [id \in RequestIDs |-> <<>>]
  /\ refDelta = [id \in RequestIDs |-> [inc |-> 0, dec |-> 0]]
  /\ devices_ = [d \in DeviceIDs |-> NewDevice("device")]
  /\ pools = {}
  /\ counters = MemoryCounters([d \in DeviceIDs |-> NewDevice("device")])
  /\ calls = 0

\* No node is before the backend.
NoBackendCall ==
  /\ NI = NoNodeInfo
  /\ supported = <<>>
  /\ lower = <<>>

Init == HostInit /\ NoBackendCall

Next ==
  \/ \E t \in Threads, name \in Names, priority \in LifecyclePriorities :
       HostCall /\ RunNetwork(t, name, priority)
  \/ \E t \in Threads : RunLookup(t)
  \/ \E t \in Threads : RunCheckQueue(t)
  \/ \E t \in Threads : RunPush(t)
  \/ \E t \in Threads : RunIncrement(t)
  \/ \E t \in Threads : RunDecrement(t)
  \/ \E t \in Threads : DispatchPop(t)
  \/ \E t \in Threads : DispatchRun(t)
  \/ \E id \in RequestIDs, err \in {OK, INTERNAL_ERROR} :
       CompletionRefcount(id, err)
  \/ \E id \in RequestIDs : CompletionCallback(id)
  \/ \E id \in RequestIDs : CompletionDispatchPop(id)
  \/ \E id \in RequestIDs : CompletionDispatchRun(id)
  \/ \E t \in Threads, functions \in Modules : AddNetwork(t, functions)
  \/ \E t \in Threads, skip \in BOOLEAN, fails \in BOOLEAN :
       AddOptimize(t, skip, fails)
  \/ \E t \in Threads, fails \in BOOLEAN : AddPartition(t, fails)
  \/ \E t \in Threads, profile \in BOOLEAN : AddProfile(t, profile)
  \/ \E t \in Threads, fails \in BOOLEAN : AddProfileRebuild(t, fails)
  \/ \E t \in Threads, delay \in BOOLEAN, fails \in BOOLEAN :
       AddConstantFold(t, delay, fails)
  \/ \E t \in Threads, serialize \in BOOLEAN, fails \in BOOLEAN :
       AddSerialize(t, serialize, fails)
  \/ \E t \in Threads, fails \in BOOLEAN : AddProvision(t, fails)
  \/ \E t \in Threads : AddCreatePool(t)
  \/ \E t \in Threads : AddPublish(t)
  \/ \E t \in Threads, name \in Names, fails \in BOOLEAN :
       RemoveNetwork(t, name, fails)
  \/ \E t \in Threads : ClearHost(t)
  \/ \E t \in Threads : ClearHostShutdownDone(t)
  \/ \E t \in Threads, name \in Names : ClearHostFirst(t, name)
  \/ \E t \in Threads, name \in Names, fails \in BOOLEAN :
       ClearHostRemove(t, name, fails)
  \/ \E t \in Threads : ClearHostLoopDone(t)
  \/ \E t \in Threads, fails \in BOOLEAN : ClearHostStop(t, fails)

Spec == Init /\ [][Next]_vars

\* The request path alone, on a host where addNetwork of Module <<"A">> has
\* succeeded: "A" is registered, "B" is unknown.
InitRun ==
  /\ config_ \in HostConfigs
  /\ networks_ = [n \in {"A"} |-> [refcount |-> 0]]
  /\ processingNetworks_ = {}
  /\ inferQueue_ = {}
  /\ activeRequestCount_ = 0
  /\ totalRequestCount_ = 0
  /\ pc = [t \in Threads |-> "idle"]
  /\ local = [t \in Threads |-> NoLocal]
  /\ ret = [t \in Threads |-> NoRet]
  /\ inflight = [id \in RequestIDs |-> NoRun]
  /\ shuttingDown = FALSE
  /\ callbacks = [id \in RequestIDs |-> <<>>]
  /\ refDelta = [id \in RequestIDs |-> [inc |-> 0, dec |-> 0]]
  /\ devices_ = Provision([d \in DeviceIDs |-> NewDevice("device")], <<"A">>)
  /\ pools = {"A"}
  /\ counters = MemoryCounters(
                   Provision([d \in DeviceIDs |-> NewDevice("device")], <<"A">>))
  /\ calls = 1
  /\ NoBackendCall

NextRun ==
  \/ \E t \in Threads, name \in Names, priority \in Priorities :
       RunNetwork(t, name, priority)
  \/ \E t \in Threads : RunLookup(t)
  \/ \E t \in Threads : RunCheckQueue(t)
  \/ \E t \in Threads : RunPush(t)
  \/ \E t \in Threads : RunIncrement(t)
  \/ \E t \in Threads : RunDecrement(t)
  \/ \E t \in Threads : DispatchPop(t)
  \/ \E t \in Threads : DispatchRun(t)
  \/ \E id \in RequestIDs, err \in {OK, INTERNAL_ERROR} :
       CompletionRefcount(id, err)
  \/ \E id \in RequestIDs : CompletionCallback(id)
  \/ \E id \in RequestIDs : CompletionDispatchPop(id)
  \/ \E id \in RequestIDs : CompletionDispatchRun(id)

RunSpec == InitRun /\ [][NextRun]_vars

\* Blocking callers of one registered network.
NextBlocking ==
  \/ \E t \in Threads, name \in Names, priority \in LifecyclePriorities,
        overload \in BlockingOverloads :
       RunNetworkBlocking(t, name, priority, overload)
  \/ \E t \in Threads : RunLookup(t)
  \/ \E t \in Threads : RunCheckQueue(t)
  \/ \E t \in Threads : RunPush(t)
  \/ \E t \in Threads : RunIncrement(t)
  \/ \E t \in Threads : RunDecrement(t)
  \/ \E t \in Threads : DispatchPop(t)
  \/ \E t \in Threads : DispatchRun(t)
  \/ \E t \in Threads : BlockingReturn(t)
  \/ \E id \in RequestIDs, err \in {OK, INTERNAL_ERROR} :
       CompletionRefcount(id, err)
  \/ \E id \in RequestIDs : CompletionCallback(id)
  \/ \E id \in RequestIDs : CompletionDispatchPop(id)
  \/ \E id \in RequestIDs : CompletionDispatchRun(id)

BlockingSpec == InitRun /\ [][NextBlocking]_vars

\* The CPU backend asked about one node.
InitBackend ==
  /\ HostInit
  /\ NI \in NodeInfos
  /\ supported = <<>>
  /\ lower = <<>>

NextBackend ==
  \/ IsOpSupportedCall
  \/ ShouldLowerCall

BackendSpec == InitBackend /\ [][NextBackend]_vars

\* ----------------------------------------------------------- vocabulary
AllIdle == \A t \in Threads : pc[t] = "idle"

\* runNetwork calls that raised activeRequestCount_ at or above the cap and
\* have not yet taken their increment back.
OverCap == {t \in Threads : pc[t] = "rn_dec"}

TypeOK ==
  /\ \A n \in DOMAIN networks_ : networks_[n].refcount \in 0..MaxRequests
  /\ activeRequestCount_ \in 0..(MaxRequests + 1)
  /\ totalRequestCount_ \in 0..MaxRequests
  /\ processingNetworks_ \subseteq Names
  /\ DOMAIN networks_ \subseteq Names

\* ------------------------------------------------------------------- C1
\* C1: activeRequestCount_ is at most maxActiveRequests in every
\* reachable state, the states inside runNetwork between its increment and
\* its return included.
C1_ActiveNeverAboveMax ==
  activeRequestCount_ <= config_.maxActiveRequests

\* What the code does keep: activeRequestCount_, less the runNetwork calls
\* that found the counter at the cap and are about to take their increment
\* back, is at most maxActiveRequests.
ActiveBoundedUpToOverCap ==
  /\ activeRequestCount_ - Cardinality(OverCap) <= config_.maxActiveRequests
  /\ activeRequestCount_ - Cardinality(OverCap) >= 0

\* ------------------------------------------------------------------- C2
\* C2: the length of inferQueue_ is at most maxQueueSize in every reachable
\* state, for any number of threads calling runNetwork concurrently.
C2_QueueNeverAboveMax ==
  Cardinality(inferQueue_) <= config_.maxQueueSize

\* ------------------------------------------------------------------- C3
\* C3: no step erases a network whose refcount is above 0, and a
\* removeNetwork of such a network returns RUNTIME_NET_BUSY and leaves
\* networks_, the executor pools and the devices as they were.
C3_BusyNetworkNeverErased ==
  [][/\ \A n \in DOMAIN networks_ :
          networks_[n].refcount > 0 => n \in DOMAIN networks_'
     /\ \A t \in Threads, n \in DOMAIN networks_, fails \in BOOLEAN :
          RemoveNetwork(t, n, fails) /\ networks_[n].refcount > 0 =>
            /\ ret'[t] = RemoveReturned(RUNTIME_NET_BUSY)
            /\ UNCHANGED <<networks_, pools, devices_>>]_vars

C3_Witness ==
  \E t \in Threads, n \in DOMAIN networks_ :
    /\ ret[t] = RemoveReturned(RUNTIME_NET_BUSY)
    /\ networks_[n].refcount > 0
    /\ n \in pools

\* ------------------------------------------------------------------- C4
\* C4: once the callback of a runNetwork call has been invoked the call has
\* taken from the refcount exactly what it added: nothing on the not-found
\* path, one increment and one decrement on the refused path, one increment
\* and the completion handler's one decrement on the accepted path, whatever
\* the execution's outcome; no call ever decrements more than it incremented.
C4_RefcountDeltaZero ==
  \A id \in RequestIDs :
    /\ refDelta[id].dec <= refDelta[id].inc
    /\ refDelta[id].inc <= 1
    /\ callbacks[id] # <<>> =>
         /\ refDelta[id].inc = refDelta[id].dec
         /\ refDelta[id].inc =
              IF callbacks[id][1] = RUNTIME_NET_NOT_FOUND THEN 0 ELSE 1

C4_Witness ==
  \E a, b, c \in RequestIDs :
    /\ callbacks[a] = <<RUNTIME_NET_NOT_FOUND>>
    /\ callbacks[b] = <<RUNTIME_REQUEST_REFUSED>> /\ refDelta[b].dec = 1
    /\ callbacks[c] = <<INTERNAL_ERROR>> /\ refDelta[c].dec = 1

\* ------------------------------------------------------------------- C5
\* C5: the user callback of every runNetwork call is invoked exactly once,
\* never twice and never omitted: once nothing is left running, every call
\* made has had its callback.
C5_CallbackExactlyOnce ==
  /\ \A id \in RequestIDs : Len(callbacks[id]) <= 1
  /\ AllIdle /\ ExecutorIdle =>
       \A id \in RequestIDs :
         id < totalRequestCount_ => Len(callbacks[id]) = 1

\* ------------------------------------------------------------------- C6
\* C6: no reachable state has a non-empty inferQueue_ while no request is
\* in flight at the executor and no runNetwork or dispatchNextRun call is
\* mid-execution.
C6_NoStrandedRequest ==
  ~(inferQueue_ # {} /\ AllIdle /\ ExecutorIdle)

\* ------------------------------------------------------------------- C7
\* Requests that are certain to be, or have been, pushed and are not yet
\* handed to the executor.
AcceptedNotHanded ==
  inferQueue_ \cup PoppedHeld
    \cup {local[t].request : t \in {u \in Threads : pc[u] = "rn_push"}}

\* C7: whenever a request is handed to the executor, no accepted
\* request of the same priority with a smaller requestID is still waiting
\* to be handed over.
C7_HandedInRequestIDOrder ==
  [][\A r \in PoppedHeld :
       inflight'[r.requestID].st # inflight[r.requestID].st =>
         \A o \in AcceptedNotHanded \ {r} :
           o.priority = r.priority => r.requestID < o.requestID]_vars

\* What the code does keep: of two requests with identical priority that are
\* in inferQueue_ together, the one with the larger requestID is never popped
\* while the other stays queued.
QueuedTiesPopInRequestIDOrder ==
  [][\A r, o \in inferQueue_ :
       /\ r \notin inferQueue_'
       /\ o.priority = r.priority
       /\ o # r
       => r.requestID < o.requestID]_vars

\* ------------------------------------------------------------------- C8
\* C8: the request dispatchNextRun pops has the greatest priority of the
\* queue at that moment and, among those of that priority, the smallest
\* requestID.
C8_PopsGreatestPriorityThenSmallestID ==
  [][\A r, o \in inferQueue_ :
       r \notin inferQueue_' /\ o # r =>
         \/ r.priority > o.priority
         \/ r.priority = o.priority /\ r.requestID < o.requestID]_vars

C8_Witness ==
  \E r \in PoppedHeld, o \in inferQueue_ :
    /\ r.priority > o.priority
    /\ o.requestID < r.requestID
    /\ activeRequestCount_ = config_.maxActiveRequests

\* ------------------------------------------------------------------- C9
\* C9: the key set of networks_ and processingNetworks_ are disjoint in every
\* state in which networkLock_ is not held exclusively.
C9_NetworksAndProcessingDisjoint ==
  DOMAIN networks_ \cap processingNetworks_ = {}

C9_Witness ==
  /\ DOMAIN networks_ # {}
  /\ processingNetworks_ # {}
  /\ \E t \in Threads : pc[t] = "add_publish"

\* ------------------------------------------------------------------ C10
\* The names reserved by the addNetwork calls still in progress.
ReservedInProgress ==
  UNION {SeqToSet(local[t].names) : t \in Threads}

\* C10: an addNetwork that has returned has left none of its names in
\* processingNetworks_: every name there belongs to a call in progress.
C10_NoNameLeftReserved ==
  processingNetworks_ \subseteq ReservedInProgress

\* ------------------------------------------------------------------ C11
\* C11: an addNetwork of a module one of whose Function names is a key of
\* networks_ or a member of processingNetworks_ returns RUNTIME_ERROR, leaves
\* in processingNetworks_ none of the names it inserted and every name that
\* was there before, and leaves networks_ unchanged.
C11_DuplicateAddRollsBack ==
  [][\A t \in Threads, functions \in Modules :
       /\ AddNetwork(t, functions)
       /\ \E i \in 1..Len(functions) :
            \/ functions[i] \in DOMAIN networks_
            \/ functions[i] \in processingNetworks_
       => /\ ret'[t] = AddReturned(RUNTIME_ERROR)
          /\ pc'[t] = "idle"
          /\ processingNetworks_' = processingNetworks_
          /\ networks_' = networks_]_vars

\* An addNetwork was turned away because of a name that a concurrent
\* addNetwork, still in progress, had reserved.
C11_Witness ==
  \E t, u \in Threads :
    /\ ret[t] = AddReturned(RUNTIME_ERROR)
    /\ pc[t] = "idle"
    /\ pc[u] \in {"add_optimize", "add_partition", "add_profile",
                  "add_rebuild", "add_fold", "add_serialize", "add_provision",
                  "add_pool", "add_publish"}
    /\ processingNetworks_ = SeqToSet(local[u].names)
    /\ DOMAIN networks_ = {}
    /\ calls = 2

\* ------------------------------------------------------------------ C12
\* C12: when addNetwork returns success every Function name of its module is
\* a key of networks_ and none of them is in processingNetworks_; and an
\* addNetwork of a module containing a name that is a key of networks_
\* returns RUNTIME_ERROR without changing networks_.
C12_AddedNamesRegistered ==
  [][/\ \A t \in Threads :
          pc[t] # "idle" /\ ret'[t] = AddReturned(OK) =>
            /\ SeqToSet(local[t].names) # {}
            /\ SeqToSet(local[t].names) \subseteq DOMAIN networks_'
            /\ SeqToSet(local[t].names) \cap processingNetworks_' = {}
     /\ \A t \in Threads, functions \in Modules :
          /\ AddNetwork(t, functions)
          /\ SeqToSet(functions) \cap DOMAIN networks_ # {}
          => /\ ret'[t] = AddReturned(RUNTIME_ERROR)
             /\ networks_' = networks_]_vars

\* Module <<"B", "A">> was added, and a later addNetwork was turned away.
C12_Witness ==
  \E t, u \in Threads :
    /\ ret[t] = AddReturned(OK)
    /\ ret[u] = AddReturned(RUNTIME_ERROR)
    /\ DOMAIN networks_ = {"A", "B"}
    /\ processingNetworks_ = {}

C14_RemoveWhileAddingIsBusy ==
  [][\A t \in Threads, fails \in BOOLEAN :
       \A n \in processingNetworks_ \cap ReservedInProgress :
         RemoveNetwork(t, n, fails) =>
           ret'[t] = RemoveReturned(RUNTIME_NET_BUSY)]_vars

\* ------------------------------------------------------------------ C15
\* The requests to network n that are in inferQueue_, popped for dispatch, or
\* being executed (their completion has not yet been invoked).
QueuedOrExecuting(n) ==
  {r.requestID : r \in {q \in inferQueue_ \cup PoppedHeld : q.networkName = n}}
    \cup {id \in RequestIDs : /\ inflight[id].st \in {"running", "rejected"}
                              /\ inflight[id].name = n}

\* The requests to network n submitted by a runNetwork that has not returned,
\* or handed to the executor with their user callback not yet invoked.
Unfinished(n) ==
  QueuedOrExecuting(n)
    \cup {id \in RequestIDs : /\ inflight[id].st = "callback"
                              /\ inflight[id].name = n}
    \cup {local[t].request.requestID :
            t \in {u \in Threads : /\ pc[u] \in {"rn_lookup", "rn_check",
                                                 "rn_push"}
                                   /\ local[u].request.networkName = n}}

C16_UnknownNameReportedInline ==
  [][/\ \A t \in Threads :
          /\ RunLookup(t)
          /\ local[t].request.networkName \notin DOMAIN networks_
          => /\ callbacks[local[t].request.requestID] = <<>>
             /\ callbacks'[local[t].request.requestID] =
                  <<RUNTIME_NET_NOT_FOUND>>
             /\ pc'[t] = "idle"
             /\ ret'[t].op = "runNetwork"
             /\ ret'[t].id = local[t].request.requestID
             /\ refDelta'[local[t].request.requestID] = [inc |-> 0, dec |-> 0]
             /\ UNCHANGED <<networks_, inferQueue_, activeRequestCount_,
                            totalRequestCount_, inflight>>
     /\ \A t \in Threads, name \in Names, priority \in Priorities :
          RunNetwork(t, name, priority) =>
            /\ local'[t].request.requestID = totalRequestCount_
            /\ totalRequestCount_' = totalRequestCount_ + 1
            /\ UNCHANGED <<networks_, inferQueue_, activeRequestCount_,
                           inflight, callbacks>>]_vars

\* A request to the unknown "B" was answered while a request to "A" was
\* being executed and another was queued.
C16_Witness ==
  \E t \in Threads, id \in RequestIDs :
    /\ ret[t] = RunReturned(id)
    /\ callbacks[id] = <<RUNTIME_NET_NOT_FOUND>>
    /\ inferQueue_ # {}
    /\ networks_["A"].refcount = 2

\* ------------------------------------------------------------------ C17
\* Thread u has made no call.
NeverCalled(u) == pc[u] = "idle" /\ ret[u] = NoRet

\* One thread alone has submitted requests, all to a known network, it is
\* between two calls, and no execution has completed.
BackToBack ==
  /\ AllIdle
  /\ \E c \in Threads : \A u \in Threads \ {c} : NeverCalled(u)
  /\ \A id \in RequestIDs :
       /\ inflight[id].st \in {"none", "running"}
       /\ callbacks[id] \in {<<>>, <<RUNTIME_REQUEST_REFUSED>>}

\* C17: with a single caller submitting back-to-back to a known network and
\* no request completing (maxQueueSize >= 1), the first maxActiveRequests
\* requests are at the executor, the next maxQueueSize are queued, every
\* later one was refused with RUNTIME_REQUEST_REFUSED, and activeRequestCount_
\* and the refcount count the accepted ones only; and once nothing is left
\* running every request of a single caller has had exactly one callback.
C17_BackToBackAdmission ==
  LET active == config_.maxActiveRequests
      queue == config_.maxQueueSize
      made == 0..(totalRequestCount_ - 1)
  IN  /\ BackToBack /\ queue >= 1 =>
           /\ {id \in RequestIDs : inflight[id].st = "running"}
                = {id \in made : id < active}
           /\ {r.requestID : r \in inferQueue_}
                = {id \in made : active <= id /\ id < active + queue}
           /\ {id \in RequestIDs : callbacks[id] = <<RUNTIME_REQUEST_REFUSED>>}
                = {id \in made : active + queue <= id}
           /\ activeRequestCount_
                = Cardinality({id \in made : id < active})
           /\ networks_["A"].refcount
                = Cardinality({id \in made : id < active + queue})
      /\ /\ AllIdle /\ ExecutorIdle
         /\ \E c \in Threads : \A u \in Threads \ {c} : NeverCalled(u)
         => \A id \in made : Len(callbacks[id]) = 1

\* maxActiveRequests = 1, maxQueueSize = 1: request 0 is at the executor,
\* request 1 is queued and request 2 was refused.
C17_Witness ==
  /\ BackToBack
  /\ config_ = HostConfig(1, 1)
  /\ totalRequestCount_ = 3
  /\ inflight[0].st = "running"
  /\ {r.requestID : r \in inferQueue_} = {1}
  /\ callbacks[2] = <<RUNTIME_REQUEST_REFUSED>>
  /\ networks_["A"].refcount = 2

\* ------------------------------------------------------------------ C18
\* Thread t is inside clearHost.
InClearHost(t) ==
  pc[t] \in {"clear_shutdown", "clear_remove", "clear_call", "clear_stop"}

\* Thread t is inside addNetwork.
InAddNetwork(t) ==
  pc[t] \in {"add_optimize", "add_partition", "add_profile", "add_rebuild",
            "add_fold", "add_serialize", "add_provision", "add_pool",
            "add_publish"}

\* C18: when clearHost returns success networks_ is empty, inferQueue_ is
\* empty and the three memory counters are zero.
C18_ClearedAfterSuccess ==
  [][\A t \in Threads :
       InClearHost(t) /\ ret'[t] = ClearReturned(OK) =>
         /\ DOMAIN networks_' = {}
         /\ inferQueue_' = {}
         /\ counters' = ZeroCounters]_vars

\* ------------------------------------------------------------------ C19
\* C19: clearHost removes no network, stops no device and does not return
\* before the callback of every request that was in flight, or queued and
\* not yet dispatched, when it was called has been invoked: it does not get
\* past the executor's shutdown before that.
C19_ClearHostWaitsForCallbacks ==
  [][\A t \in Threads :
       pc[t] = "clear_shutdown" /\ pc'[t] # "clear_shutdown" =>
         \A id \in local[t].pending : callbacks[id] # <<>>]_vars

\* ------------------------------------------------------------------ C20
\* C20: every clearHost call, when it returns, has removed every network,
\* stopped every DeviceManager and zeroed the three memory counters, and
\* returns the first DeviceManager stop error or success, also when a
\* removeNetwork inside it reported an eviction error.
C20_ClearHostAlwaysStopsAndZeroes ==
  [][\A t \in Threads :
       InClearHost(t) /\ pc'[t] = "idle" =>
         /\ DOMAIN networks_' = {}
         /\ \A d \in DeviceIDs : devices_'[d].stopped
         /\ counters' = ZeroCounters
         /\ pc[t] = "clear_stop"]_vars


\* The counters exported by init, before any network is added.
InitialCounters == MemoryCounters([d \in DeviceIDs |-> NewDevice("device")])

\* The only calls so far are a successful addNetwork by another thread and,
\* possibly, a successful removeNetwork by t; n is the last network left.
LastOfAddedModule(t, n) ==
  /\ AllIdle
  /\ totalRequestCount_ = 0
  /\ DOMAIN networks_ = {n}
  /\ \E u \in Threads \ {t} : ret[u] = AddReturned(OK)
  /\ \/ calls = 1 /\ ret[t] = NoRet
     \/ calls = 2 /\ ret[t] = RemoveReturned(OK)

C22_ProfileOnlyWithoutNetworks ==
  [][\A t \in Threads :
       /\ (AddProfile(t, TRUE) /\ DOMAIN networks_ # {})
            => /\ ret'[t] = AddReturned(RUNTIME_ERROR)
               /\ UNCHANGED <<networks_, devices_, pools, shuttingDown>>
       /\ \A initFails \in BOOLEAN :
            AddProfileRebuild(t, initFails) => DOMAIN networks_ = {}]_vars

\* Thread t is inside runNetwork, with currentRun in local[t].request.
InRunNetwork(t) ==
  pc[t] \in {"rn_lookup", "rn_check", "rn_push", "rn_inc", "rn_dec",
            "dispatch", "dispatch_run"}

\* The run identifiers handed out so far are below totalRequestCount_ and no
\* two calls share one.
RunIdentifiersDistinct ==
  /\ \A t \in Threads :
       /\ InRunNetwork(t) => local[t].request.requestID < totalRequestCount_
       /\ ret[t].op = "runNetwork" => ret[t].id \in 0..(totalRequestCount_ - 1)
  /\ \A t \in Threads : \A u \in Threads \ {t} :
       /\ (InRunNetwork(t) /\ InRunNetwork(u))
            => local[t].request.requestID # local[u].request.requestID
       /\ (InRunNetwork(t) /\ ret[u].op = "runNetwork")
            => local[t].request.requestID # ret[u].id
       /\ (ret[t].op = "runNetwork" /\ ret[u].op = "runNetwork")
            => ret[t].id # ret[u].id
  /\ \A id \in RequestIDs :
       callbacks[id] # <<>> => id < totalRequestCount_

\* C23: every runNetwork call takes the value of totalRequestCount_ before
\* its increment by one as its run identifier, so that the identifiers are
\* 0, 1, 2, ... without gap and pairwise distinct, also for calls that end in
\* RUNTIME_NET_NOT_FOUND or RUNTIME_REQUEST_REFUSED; the call returns that
\* identifier, and a callback invoked by the call is the callback of that
\* identifier.
C23_RunIdentifiers ==
  /\ []RunIdentifiersDistinct
  /\ [][/\ totalRequestCount_' # totalRequestCount_
            => /\ totalRequestCount_' = totalRequestCount_ + 1
               /\ \E t \in Threads :
                    /\ pc[t] = "idle" /\ InRunNetwork(t)'
                    /\ local'[t].request.requestID = totalRequestCount_
        /\ \A t \in Threads :
             /\ (InRunNetwork(t) /\ InRunNetwork(t)')
                  => local'[t].request = local[t].request
             /\ (InRunNetwork(t) /\ pc'[t] = "idle")
                  => ret'[t] = [op |-> "runNetwork", err |-> OK,
                                id |-> local[t].request.requestID,
                                context |-> NoContext]
             /\ (InRunNetwork(t) /\ pc'[t] # pc[t])
                  => \A id \in RequestIDs \ {local[t].request.requestID} :
                       callbacks'[id] = callbacks[id]]_vars

\* Two calls were answered inline, one unknown name and one refusal, and
\* returned the identifiers 0 and 1 their callbacks were invoked with.
C23_Witness ==
  /\ totalRequestCount_ = 2
  /\ ret["t1"] = RunReturned(0)
  /\ ret["t2"] = RunReturned(1)
  /\ callbacks[0] = <<RUNTIME_NET_NOT_FOUND>>
  /\ callbacks[1] = <<RUNTIME_REQUEST_REFUSED>>

\* Thread t is inside runNetworkBlocking and has not returned.
InRunNetworkBlocking(t) ==
  local[t].blocking # "none" /\ (InRunNetwork(t) \/ pc[t] = "rb_wait")

\* C24: a runNetworkBlocking call has returned only if the callback of its
\* request has been invoked; it returns the error that callback was given,
\* and on return the caller holds the context (the bindings overload: the
\* bindings, not destroyed) that the callback received, never an empty one;
\* this covers the callbacks invoked inline for an unknown network and for a
\* refused request.
C24_BlockingReturnsAfterCallback ==
  \A t \in Threads :
    /\ InRunNetworkBlocking(t) => ret[t] = NoRet
    /\ ret[t].op \in BlockingOverloads
         => /\ callbacks[ret[t].id] # <<>>
            /\ ret[t].err = callbacks[ret[t].id][1]
            /\ ret[t].context = ContextOf(ret[t].id)
            /\ ret[t].context # NoContext

\* The context overload returned the inline refusal of run 1 and the
\* bindings overload the executor's result of run 0, each with its context.
C24_Witness ==
  /\ ret["t1"] = [op |-> "context", err |-> RUNTIME_REQUEST_REFUSED, id |-> 1,
                  context |-> ContextOf(1)]
  /\ ret["t2"] = [op |-> "bindings", err |-> OK, id |-> 0,
                  context |-> ContextOf(0)]
  /\ callbacks[0] = <<OK>>
  /\ callbacks[1] = <<RUNTIME_REQUEST_REFUSED>>

C26_UnlistedKindsUnsupported ==
  supported # <<>> =>
    /\ supported[1] \in BOOLEAN
    /\ NI.kind \notin ListedKinds => supported[1] = FALSE

\* A FullyConnected node with Float everywhere was refused.
C26_Witness ==
  /\ supported = <<FALSE>>
  /\ NI.kind = "FullyConnected"
  /\ \A x \in DOMAIN NI.inTy : NI.inTy[x] = "FloatTy"
  /\ \A x \in DOMAIN NI.outTy : NI.outTy[x] = "FloatTy"

\* C27: shouldLower returns false for a Convolution and for a
\* SparseLengthsSum node, and true for a node of any other kind.
C27_LowerAllButConvolutionAndSLS ==
  lower # <<>> =>
    (lower[1] = FALSE <=> NI.kind \in {"Convolution", "SparseLengthsSum"})

\* Lowering was refused for a SparseLengthsSum node.
C27_Witness ==
  /\ lower = <<FALSE>>
  /\ NI.kind = "SparseLengthsSum"

\* C28: isOpSupported accepts a Convolution exactly when its input is not
\* quantized and every input and output is Float, or its input is quantized,
\* every input and output but the bias is Int8Q and the bias is Int8Q or
\* Int32Q.
C28_ConvolutionTable ==
  (supported # <<>> /\ NI.kind = "Convolution") =>
    (supported[1] <=>
       \/ /\ ~IsQuantizedType(NI.inTy["Input"])
          /\ \A x \in DOMAIN NI.inTy : NI.inTy[x] = "FloatTy"
          /\ \A x \in DOMAIN NI.outTy : NI.outTy[x] = "FloatTy"
       \/ /\ IsQuantizedType(NI.inTy["Input"])
          /\ \A x \in DOMAIN NI.inTy \ {"Bias"} : NI.inTy[x] = "Int8QTy"
          /\ \A x \in DOMAIN NI.outTy : NI.outTy[x] = "Int8QTy"
          /\ NI.inTy["Bias"] \in {"Int8QTy", "Int32QTy"})

\* A quantized Convolution with an Int32Q bias was accepted.
C28_Witness ==
  /\ supported = <<TRUE>>
  /\ NI.kind = "Convolution"
  /\ NI.inTy["Input"] = "Int8QTy"
  /\ NI.inTy["Bias"] = "Int32QTy"

\* ---------------------------------------------------------------- locks
Lock(l) == [op |-> "lock", lock |-> l]
Unlock(l) == [op |-> "unlock", lock |-> l]
\* A read or write of a member that networkLock_ is there to guard.
Access(member) == [op |-> "access", lock |-> member]
\* An invocation of the user callback.
Callback == [op |-> "callback", lock |-> "callback"]

\* The locks a thread (or a completion) holds while it rests at a label.
Held(label) ==
  IF label \in {"rn_check", "rn_push", "dispatch_run"}
    THEN {"networkLock_"}
    ELSE {}

\* Mutant of DispatchLockOps: inferQueueLock_ is taken before networkLock_.
DispatchLockOpsQueueFirst(to) ==
  IF to = "dispatch_run"
    THEN <<Lock("inferQueueLock_"), Lock("networkLock_"),
           Unlock("inferQueueLock_")>>
    ELSE <<Lock("inferQueueLock_"), Lock("networkLock_"),
           Unlock("inferQueueLock_"), Unlock("networkLock_")>>

\* dispatchNextRun up to the pop: networkLock_ shared, then inferQueueLock_
\* exclusive in the inner block; the empty queue returns and drops both.
DispatchLockOps(to) ==
  IF to = "dispatch_run"
    THEN <<Lock("networkLock_"), Lock("inferQueueLock_"),
           Unlock("inferQueueLock_")>>
    ELSE <<Lock("networkLock_"), Lock("inferQueueLock_"),
           Unlock("inferQueueLock_"), Unlock("networkLock_")>>

\* cleanupAddNetwork inside a networkLock_ block.
LockedCleanup ==
  <<Lock("networkLock_"), Access("processingNetworks_"), Access("devices_"),
    Unlock("networkLock_")>>

\* removeNetwork
RemoveLockOps ==
  <<Lock("networkLock_"), Access("networks_"), Access("processingNetworks_"),
    Access("devices_"), Unlock("networkLock_")>>

\* The lock and unlock operations and the accesses to networks_,
\* processingNetworks_ and devices_, in program order, of the step that
\* takes a thread or a completion from one label to another.
LockOps(from, to) ==
  CASE from = "rn_lookup" ->
         IF to = "rn_check"
           THEN <<Lock("networkLock_"), Access("networks_")>>
           ELSE <<Lock("networkLock_"), Access("networks_"), Callback,
                  Unlock("networkLock_")>>
    [] from = "rn_check" ->
         IF to = "rn_push"
           THEN <<Lock("inferQueueLock_"), Unlock("inferQueueLock_")>>
           ELSE <<Lock("inferQueueLock_"), Access("networks_"), Callback,
                  Unlock("inferQueueLock_"), Unlock("networkLock_")>>
    [] from = "rn_push" ->
         <<Lock("inferQueueLock_"), Unlock("inferQueueLock_"),
           Unlock("networkLock_")>>
    [] from = "dispatch" -> DispatchLockOps(to)
    [] from = "dispatch_run" ->
         <<Access("networks_"), Unlock("networkLock_")>>
    [] from \in {"running", "rejected"} ->
         <<Lock("networkLock_"), Access("networks_"), Unlock("networkLock_")>>
    [] from = "callback" -> <<Callback>>
    [] from = "idle" ->
         IF to \in {"rn_lookup", "clear_shutdown"} THEN <<>>
         ELSE IF to = "add_optimize"
           THEN <<Lock("networkLock_"), Access("networks_"),
                  Access("processingNetworks_"), Unlock("networkLock_"),
                  Lock("networkLock_"), Access("devices_"),
                  Unlock("networkLock_")>>
           ELSE RemoveLockOps
    [] from \in {"add_optimize", "add_partition", "add_provision"} ->
         IF to = "idle" THEN LockedCleanup ELSE <<>>
    [] from = "add_profile" ->
         IF to = "add_fold" THEN <<>> ELSE <<Access("networks_")>>
    [] from = "add_rebuild" -> <<Access("devices_")>>
    [] from = "add_pool" -> <<Lock("networkLock_"), Unlock("networkLock_")>>
    [] from = "add_publish" ->
         <<Lock("networkLock_"), Access("networks_"),
           Access("processingNetworks_"), Access("devices_"),
           Unlock("networkLock_")>>
    [] from = "clear_remove" ->
         IF to = "clear_stop"
           THEN <<Access("networks_")>>
           ELSE <<Access("networks_"), Access("networks_")>>
    [] from = "clear_call" -> RemoveLockOps
    [] from = "clear_stop" ->
         <<Lock("networkLock_"), Access("devices_"), Unlock("networkLock_")>>
    [] OTHER -> <<>>

\* The locks held after the operations ops, starting with held.
RECURSIVE HeldAfter(_, _)
HeldAfter(held, ops) ==
  IF ops = <<>> THEN held
  ELSE HeldAfter(IF Head(ops).op = "lock"
                   THEN held \cup {Head(ops).lock}
                   ELSE held \ {Head(ops).lock},
                 Tail(ops))

\* networkLock_ is never requested while inferQueueLock_ is held.
RECURSIVE OrderKept(_, _)
OrderKept(held, ops) ==
  IF ops = <<>> THEN TRUE
  ELSE /\ Head(ops) = Lock("networkLock_") => "inferQueueLock_" \notin held
       /\ OrderKept(HeldAfter(held, <<Head(ops)>>), Tail(ops))

\* C29: in every step of runNetwork, dispatchNextRun, the completion
\* handler, addNetwork, removeNetwork and clearHost, networkLock_ is never
\* requested while the same thread holds inferQueueLock_ (inferQueueLock_ is
\* requested with networkLock_ already held or not needed afterwards), and
\* the locks kept across steps are the ones the next step starts with.
C29_QueueLockAfterNetworkLock ==
  [][/\ \A t \in Threads :
          (pc'[t] # pc[t] \/ ret'[t] # ret[t])
            => /\ OrderKept(Held(pc[t]), LockOps(pc[t], pc'[t]))
               /\ HeldAfter(Held(pc[t]), LockOps(pc[t], pc'[t])) = Held(pc'[t])
     /\ \A id \in RequestIDs :
          (inflight[id].st # "none" /\ inflight'[id].st # inflight[id].st)
            => /\ OrderKept(Held(inflight[id].st),
                            LockOps(inflight[id].st, inflight'[id].st))
               /\ HeldAfter(Held(inflight[id].st),
                            LockOps(inflight[id].st, inflight'[id].st))
                    \subseteq Held(inflight'[id].st)]_vars

\* One thread has popped under both locks and still holds networkLock_,
\* another holds networkLock_ and is about to take inferQueueLock_.
C29_Witness ==
  \E t \in Threads, u \in Threads :
    /\ pc[t] = "dispatch_run"
    /\ pc[u] = "rn_push"

\* Every access among ops is made with networkLock_ held.
RECURSIVE AccessesLocked(_, _)
AccessesLocked(held, ops) ==
  IF ops = <<>> THEN TRUE
  ELSE /\ Head(ops).op = "access" => "networkLock_" \in held
       /\ AccessesLocked(HeldAfter(held, <<Head(ops)>>), Tail(ops))

\* C30: every read or write of networks_, processingNetworks_ or devices_
\* made by a step of a HostManager operation is made while the thread holds
\* networkLock_.
C30_GuardedAccessUnderLock ==
  [][/\ \A t \in Threads :
          (pc'[t] # pc[t] \/ ret'[t] # ret[t])
            => AccessesLocked(Held(pc[t]), LockOps(pc[t], pc'[t]))
     /\ \A id \in RequestIDs :
          (inflight[id].st # "none" /\ inflight'[id].st # inflight[id].st)
            => AccessesLocked(Held(inflight[id].st),
                              LockOps(inflight[id].st, inflight'[id].st))]_vars

\* C31: when executor_->shutdown() has returned inside clearHost,
\* activeRequestCount_ is 0, whatever runNetwork calls and completions came
\* before the clearHost call or overlap it.
C31_NoActiveRequestAfterShutdown ==
  [][\A t \in Threads :
       ClearHostShutdownDone(t) => activeRequestCount_' = 0]_vars

\* C32: in every removeNetwork that erases a network, at each point of its
\* body where an eviction has been attempted or the NetworkData is gone from
\* networks_, the executor pool of the network has already been freed; after
\* the call the network has neither entry nor pool.
C32_PoolFreedBeforeErase ==
  [][\A t \in Threads, n \in Names, evictFails \in BOOLEAN :
       (RemoveNetwork(t, n, evictFails) /\ RemoveErases(n))
         => LET trace == RemoveTrace(RemoveStatements, Host, n, evictFails)
            IN  /\ \A i \in 1..Len(trace) :
                     (\/ trace[i].devices # devices_
                      \/ n \notin DOMAIN trace[i].networks)
                       => n \notin trace[i].pools
                /\ n \notin DOMAIN networks_'
                /\ n \notin pools']_vars

\* The one network that was added, pool and functions included, has been
\* removed: no entry, no pool and no function is left.
C32_Witness ==
  /\ AllIdle
  /\ calls = 2
  /\ \E t \in Threads, u \in Threads :
       /\ ret[t] = AddReturned(OK)
       /\ ret[u] = RemoveReturned(OK)
  /\ DOMAIN networks_ = {}
  /\ pools = {}
  /\ \A d \in DeviceIDs : devices_[d].functions = {}

\* The completion lambdas that are between the end of their run and the end
\* of their dispatchNextRun.
Chains == {id \in RequestIDs : inflight[id].st # "none"}

\* C33: the completion lambda of a request first decrements the refcount,
\* then invokes the user callback, then calls dispatchNextRun: the callback is
\* invoked only after the refcount block and leaves the queue and
\* activeRequestCount_ alone, the lambda pops or gives up its slot only after
\* its callback has been recorded, and every lambda that has not finished
\* holds a slot of activeRequestCount_.
C33_CompletionOrder ==
  /\ [](Cardinality(Chains) <= activeRequestCount_)
  /\ [][\A id \in RequestIDs :
          /\ (inflight[id].st # "callback" /\ inflight'[id].st = "callback")
               => /\ inflight[id].st \in {"running", "rejected"}
                  /\ callbacks'[id] = callbacks[id]
                  /\ inflight[id].name \in DOMAIN networks_
                       => networks_'[inflight[id].name].refcount
                            = networks_[inflight[id].name].refcount - 1
          /\ (inflight[id].st \in {"running", "rejected", "callback"}
                /\ callbacks'[id] # callbacks[id])
               => /\ inflight[id].st = "callback"
                  /\ inflight'[id].st = "dispatch"
                  /\ UNCHANGED <<inferQueue_, activeRequestCount_, networks_>>
          /\ (inflight[id].st # "none"
                /\ \/ (inferQueue_' # inferQueue_
                         /\ inflight'[id].st = "dispatch_run")
                   \/ inflight'[id].st = "none")
               => /\ inflight[id].st \in {"dispatch", "dispatch_run"}
                  /\ callbacks[id] # <<>>]_vars

\* A completion lambda whose callback has returned has popped the next
\* request of the queue.
C33_Witness ==
  \E id \in RequestIDs :
    /\ inflight[id].st = "dispatch_run"
    /\ callbacks[id] # <<>>
    /\ inflight[id].popped # NoRequest
    /\ activeRequestCount_ >= 1

\* No runNetwork call and no completion lambda is in the middle of its work.
RunsQuiescent ==
  /\ \A t \in Threads : ~InRunNetwork(t)
  /\ \A id \in RequestIDs : inflight[id].st \in {"none", "running", "rejected"}

\* The requests for network n that are queued or at the executor.
Outstanding(n) ==
  {r.requestID : r \in {q \in inferQueue_ : q.networkName = n}}
    \cup {id \in RequestIDs : /\ inflight[id].st \in {"running", "rejected"}
                              /\ inflight[id].name = n}

\* C34: no refcount is ever negative, and whenever no runNetwork call and no
\* completion lambda is mid-execution the refcount of every network is the
\* number of requests for it that are in inferQueue_ or at the executor.
C34_RefcountCountsOutstanding ==
  /\ \A n \in DOMAIN networks_ : networks_[n].refcount >= 0
  /\ RunsQuiescent =>
       \A n \in DOMAIN networks_ :
         networks_[n].refcount = Cardinality(Outstanding(n))

\* Between calls, one request for "A" is queued and another is at the
\* executor, and the refcount of "A" is 2.
C34_Witness ==
  /\ RunsQuiescent
  /\ "A" \in DOMAIN networks_
  /\ networks_["A"].refcount = 2
  /\ \E q \in inferQueue_ : q.networkName = "A"
  /\ \E id \in RequestIDs : inflight[id].st = "running"

\* The requests handed to the executor whose completion lambda has not yet
\* returned from the user callback.
AtExecutor ==
  {id \in RequestIDs : inflight[id].st \in {"running", "rejected", "callback"}}

\* C35: under every interleaving of runNetwork calls and completions the
\* requests that are at the executor number at most maxActiveRequests, so a
\* pool of maxActiveRequests execution states per network is never exhausted.
C35_ExecutorNeverAboveMax ==
  /\ Cardinality(AtExecutor) <= config_.maxActiveRequests
  /\ \A n \in Names :
       Cardinality({id \in AtExecutor : inflight[id].name = n})
         <= config_.maxActiveRequests

\* The executor is full, and a further runNetwork call that raised
\* activeRequestCount_ above the cap is about to leave its request queued.
C35_Witness ==
  /\ Cardinality(AtExecutor) = config_.maxActiveRequests
  /\ \E t \in Threads : pc[t] = "rn_dec"
  /\ activeRequestCount_ > config_.maxActiveRequests
  /\ inferQueue_ # {}

\* C36: every request in inferQueue_, and every request a dispatchNextRun
\* has popped and not yet handed over, names a key of networks_; the
\* networks_[request.networkName] of a dispatchNextRun therefore inserts no
\* entry and finds the network the request was queued for.
C36_QueuedRequestsNameRegisteredNetworks ==
  /\ [](\A r \in inferQueue_ \cup PoppedHeld :
          r.networkName \in DOMAIN networks_)
  /\ [][/\ \A t \in Threads :
             DispatchRun(t) => UNCHANGED networks_
        /\ \A id \in RequestIDs :
             CompletionDispatchRun(id) => UNCHANGED networks_]_vars

\* A request for "A" is queued and a removeNetwork of "A" was turned away.
C36_Witness ==
  /\ \E r \in inferQueue_ : r.networkName = "A"
  /\ \E t \in Threads : ret[t] = RemoveReturned(RUNTIME_NET_BUSY)
  /\ "A" \in DOMAIN networks_
  /\ "A" \notin processingNetworks_

\* C37: with maxQueueSize = 0 a runNetwork call that found its network
\* leaves the queue check refused: its callback receives
\* RUNTIME_REQUEST_REFUSED, the reference is given back and the call returns
\* its run identifier; nothing is ever queued, no slot of
\* activeRequestCount_ is taken and no request reaches the executor.
C37_ZeroQueueRefusesAll ==
  /\ [](config_.maxQueueSize = 0 =>
          /\ inferQueue_ = {}
          /\ activeRequestCount_ = 0
          /\ ExecutorIdle
          /\ \A t \in Threads : pc[t] \in {"idle", "rn_lookup", "rn_check"})
  /\ [][config_.maxQueueSize = 0 =>
          \A t \in Threads :
            RunCheckQueue(t) =>
              /\ callbacks'[local[t].request.requestID]
                   = <<RUNTIME_REQUEST_REFUSED>>
              /\ ret'[t] = RunReturned(local[t].request.requestID)
              /\ pc'[t] = "idle"
              /\ networks_'[local[t].request.networkName].refcount
                   = networks_[local[t].request.networkName].refcount - 1]_vars

\* With maxQueueSize = 0 and nothing queued or active, a request for the
\* registered network has been refused.
C37_Witness ==
  /\ config_.maxQueueSize = 0
  /\ \E id \in RequestIDs : callbacks[id] = <<RUNTIME_REQUEST_REFUSED>>
  /\ \E t \in Threads : ret[t].op = "runNetwork" /\ pc[t] = "idle"
  /\ networks_["A"].refcount = 0

\* Every callback among ops is invoked with no lock held.
RECURSIVE CallbacksUnlocked(_, _)
CallbacksUnlocked(held, ops) ==
  IF ops = <<>> THEN TRUE
  ELSE /\ Head(ops) = Callback => held = {}
       /\ CallbacksUnlocked(HeldAfter(held, <<Head(ops)>>), Tail(ops))

\* C38: the user callback is invoked with neither networkLock_ nor
\* inferQueueLock_ held by the invoking thread, on the not-found path, on the
\* refused path and on the completion path.
C38_CallbackOutsideLocks ==
  [][/\ \A t \in Threads :
          (pc'[t] # pc[t] \/ ret'[t] # ret[t])
            => CallbacksUnlocked(Held(pc[t]), LockOps(pc[t], pc'[t]))
     /\ \A id \in RequestIDs :
          (inflight[id].st # "none" /\ inflight'[id].st # inflight[id].st)
            => CallbacksUnlocked(Held(inflight[id].st),
                                 LockOps(inflight[id].st, inflight'[id].st))]_vars

\* The part that holds: the completion lambda invokes the callback with no
\* lock held.
CompletionCallbackOutsideLocks ==
  [][\A id \in RequestIDs :
       CompletionCallback(id)
         => CallbacksUnlocked(Held(inflight[id].st),
                              LockOps(inflight[id].st, inflight'[id].st))]_vars

====
